---- MODULE Spec2Model ----
(***************************************************************************)
(* A model of the gRPC gateway of lndk, src/src/server.rs: the four        *)
(* handlers of `impl Offers for LNDKServer` (pay_offer, decode_invoice,    *)
(* get_invoice, pay_invoice), the credential extractor                     *)
(* check_auth_metadata and the shared Active Payments map of the offer     *)
(* handler.  Every request is a process; its position in the handler is    *)
(* req[r].pc and every statement that can fail or that awaits is one       *)
(* action.  The calls that leave server.rs (get_lnd_client,                *)
(* get_destination, get_info, get_network, the OfferHandler's methods)     *)
(* return a result chosen nondeterministically from the results their      *)
(* signatures allow.                                                       *)
(***************************************************************************)
EXTENDS Integers, Sequences, FiniteSets, TLC

VARIABLES req, active_payments, lock, entropy, fs, tls, codec

vars == <<req, active_payments, lock, entropy, fs, tls, codec>>

\* the state of the gRPC service, which the TLS bootstrap and the codec leave alone
server_vars == <<req, active_payments, lock, entropy>>

(***************************************************************************)
(* Bounds of the model.                                                    *)
(***************************************************************************)
\* longest `macaroon` metadata value, in bytes
MaxMacLen == 1
\* largest amount (msats) a request may carry
MaxAmount == 2
\* number of requests in flight at the same time in SpecConc
MaxConc == 2

(***************************************************************************)
(* Option<T> is a set with at most one element; Result<T, E> is a record.  *)
(***************************************************************************)
None == {}
Some(x) == {x}
Unwrap(o) == CHOOSE x \in o : TRUE

Status(code, message) == [code |-> code, message |-> message]
NoStatus == Status("", <<>>)

Ok(v) == [ok |-> TRUE, val |-> v, err |-> NoStatus]
Err(st) == [ok |-> FALSE, val |-> <<>>, err |-> st]

(***************************************************************************)
(* Request inputs.                                                         *)
(***************************************************************************)
\* Bytes a metadata value may hold: two visible ASCII characters and one
\* opaque (obs-text) byte, which a header value accepts and to_str rejects.
Bytes == {65, 66, 200}

SeqsUpTo(S, n) == UNION {[1..k -> S] : k \in 0..n}

MacaroonValues == SeqsUpTo(Bytes, MaxMacLen)

\* MetadataMap, restricted to the one key the handlers read.
MetadataMaps == [macaroon : {None} \cup {Some(v) : v \in MacaroonValues}]

Amounts == {None} \cup {Some(a) : a \in 1..MaxAmount}

OfferStrings == {"lno1offer", "not-an-offer"}

InvoiceStrings == {"invoice-no-amount", "invoice-amount-1", "zz"}

Ops == {"pay_offer", "decode_invoice", "get_invoice", "pay_invoice"}

OfferOps == {"pay_offer", "get_invoice"}

\* The request message (request.get_ref()): PayOfferRequest and
\* GetInvoiceRequest carry an offer, the other two an invoice.
Bodies(op) ==
    IF op \in OfferOps
    THEN [text : OfferStrings, amount : Amounts]
    ELSE IF op = "pay_invoice"
    THEN [text : InvoiceStrings, amount : Amounts]
    ELSE [text : InvoiceStrings, amount : {None}]

\* A request as the handler receives it, before its first statement.
NewRequest(op, metadata, body) ==
    [op |-> op, metadata |-> metadata, body |-> body,
     pc |-> "start", trace |-> <<>>, log |-> <<>>,
     outcome |-> "pending", status |-> NoStatus, reply |-> None,
     macaroon |-> None, invoice |-> None, amount |-> None,
     payment_id |-> None, minted |-> {}, handler_err |-> None]

Requests ==
    UNION {{NewRequest(op, md, b) : md \in MetadataMaps, b \in Bodies(op)} : op \in Ops}

\* The requests of the concurrent specification: every operation, with and
\* without a credential, with a well-formed and a malformed text.
ConcRequests ==
    {q \in Requests :
        /\ q.metadata.macaroon \in {None, Some(<<65>>)}
        /\ q.body.amount = (IF q.op = "pay_invoice" THEN Some(1) ELSE None)
        /\ q.body.text \in {"lno1offer", "not-an-offer", "invoice-amount-1", "zz"}}

(***************************************************************************)
(* Library functions the handlers call, by what they do.                   *)
(***************************************************************************)
\* MetadataValue::to_str: the value as text when every byte is a visible
\* ASCII character (32..126) or a tab, an error otherwise.
is_visible_ascii(b) == (b >= 32 /\ b < 127) \/ b = 9

to_str(value) ==
    IF \A i \in 1..Len(value) : is_visible_ascii(value[i])
    THEN Ok(value)
    ELSE Err(Status("ToStrError", <<"failed to convert header to a str">>))

\* Offer::from_str: the offer of a bech32 string starting with "lno".
Offer_from_str(text) ==
    IF text = "lno1offer"
    THEN Ok(<<"offer">>)
    ELSE Err(Status("Bolt12ParseError", <<"InvalidBech32Hrp">>))

\* Bolt12Invoice::try_from: the invoice a hex string encodes.  `amount` is
\* invoice.amount(), `amount_msats` is invoice.amount_msats().
Bolt12Invoice_try_from(text) ==
    CASE text = "invoice-no-amount" ->
            Ok([id |-> "invoice-no-amount", amount |-> None, amount_msats |-> 2])
      [] text = "invoice-amount-1" ->
            Ok([id |-> "invoice-amount-1", amount |-> Some(1), amount_msats |-> 1])
      [] OTHER -> Err(Status("Bolt12ParseError", <<"Decode">>))

\* The invoice the offer handler negotiates for an offer.
NegotiatedInvoice == [id |-> "negotiated", amount |-> Some(1), amount_msats |-> 1]

\* validate_amount of lndk_offers: the amount to pay, or InvalidAmount when
\* the invoice fixes an amount and the caller passes another one, or when
\* neither gives an amount.
validate_amount(invoice_amount, amount) ==
    IF invoice_amount = None
    THEN IF amount = None
         THEN Err(Status("InvalidAmount", <<"Offer doesn't set an amount, so user must specify one">>))
         ELSE Ok(Unwrap(amount))
    ELSE IF amount = None
         THEN Ok(Unwrap(invoice_amount))
         ELSE IF Unwrap(amount) = Unwrap(invoice_amount)
              THEN Ok(Unwrap(amount))
              ELSE Err(Status("InvalidAmount", <<"Amount conflicts with the invoice's amount">>))

\* The variants of OfferError the offer handler may fail with.
OfferErrors == {"InvalidAmount", "InvalidCurrency", "InvoiceTimeout", "PaymentFailure"}

\* Results of the awaited calls that leave this file.
ConnectResults == {Ok(<<"client">>), Err(Status("ConnectError", <<"transport error">>))}

DestinationResults == {Ok(<<"destination">>), Err(Status("OfferError", <<"IntroductionNodeNotFound">>))}

GetInfoResults == {Ok(<<"info">>), Err(Status("tonic::Status", <<"rpc error">>))}

NetworkResults == {Ok(<<"regtest">>), Err(Status("NetworkParseError", <<"invalid network">>))}

HandlerResults == {Ok(<<"payment_preimage">>)} \cup {Err(Status(e, <<e>>)) : e \in OfferErrors}

WriteResults == {Ok(<<"bytes">>), Err(Status("io::Error", <<"write failed">>))}

\* The Active Payments map of the offer handler, as its set of keys.
TrackPayment(payments, payment_id) == payments \cup {payment_id}

UntrackPayment(payments, payment_id) == payments \ {payment_id}

(***************************************************************************)
(* check_auth_metadata and the response conversions.                       *)
(***************************************************************************)
\* check_auth_metadata taking a missing entry for an empty credential
check_auth_metadata_default(metadata) ==
    IF metadata.macaroon /= None
    THEN LET text == to_str(Unwrap(metadata.macaroon)) IN
         IF text.ok
         THEN Ok(text.val)
         ELSE Err(Status("InvalidArgument",
                         <<"Invalid macaroon string provided: ">> \o text.err.message))
    ELSE Ok(<<>>)

\* check_auth_metadata keeping the text bytes of a value that is not text
check_auth_metadata_lossy(metadata) ==
    IF metadata.macaroon /= None
    THEN Ok(SelectSeq(Unwrap(metadata.macaroon), is_visible_ascii))
    ELSE Err(Status("Unauthenticated",
                    <<"No LND macaroon provided: Make sure to provide macaroon in request metadata">>))

check_auth_metadata(metadata) ==
    IF metadata.macaroon /= None
    THEN LET text == to_str(Unwrap(metadata.macaroon)) IN
         IF text.ok
         THEN Ok(text.val)
         ELSE Err(Status("InvalidArgument",
                         <<"Invalid macaroon string provided: ">> \o text.err.message))
    ELSE Err(Status("Unauthenticated",
                    <<"No LND macaroon provided: Make sure to provide macaroon in request metadata">>))

convert_invoice_features(features) == <<"MppOpt">>

generate_bolt12_invoice_contents(invoice) ==
    [invoice |-> invoice.id,
     amount_msats |-> invoice.amount_msats,
     features |-> convert_invoice_features(invoice)]

encode_invoice_as_hex(invoice, written) ==
    IF written.ok
    THEN Ok(<<"hex", invoice.id>>)
    ELSE Err(Status("Internal", <<"Error serializing invoice: ">> \o written.err.message))

\* The match on the offer handler's error in pay_offer and in get_invoice.
pay_offer_map_err(e) ==
    CASE e = "InvalidAmount" -> Status("InvalidArgument", <<e>>)
      [] e = "InvalidCurrency" -> Status("InvalidArgument", <<e>>)
      [] OTHER -> Status("Internal", <<"Internal error: ", e>>)

\* the match of get_invoice without its InvalidCurrency arm
get_invoice_map_err_no_currency(e) ==
    CASE e = "InvalidAmount" -> Status("InvalidArgument", <<e>>)
      [] OTHER -> Status("Internal", <<"Internal error: ", e>>)

get_invoice_map_err(e) ==
    CASE e = "InvalidAmount" -> Status("InvalidArgument", <<e>>)
      [] e = "InvalidCurrency" -> Status("InvalidArgument", <<e>>)
      [] OTHER -> Status("Internal", <<"Internal error: ", e>>)

(***************************************************************************)
(* How a handler moves: a statement runs, then the handler goes on,        *)
(* returns Err(status) (the `?` operator and `return Err`), returns        *)
(* Ok(Response) or panics.                                                 *)
(***************************************************************************)
\* the statement `step` has run and has succeeded (ok) or failed
Ran(q, step, ok) == [q EXCEPT !.trace = Append(@, [step |-> step, ok |-> ok])]

Logged(q, line) == [q EXCEPT !.log = Append(@, line)]

Goto(q, pc) == [q EXCEPT !.pc = pc]

ReturnErr(q, status) == [q EXCEPT !.pc = "done", !.outcome = "err", !.status = status]

ReturnOk(q, reply) == [q EXCEPT !.pc = "done", !.outcome = "ok", !.reply = Some(reply)]

Panic(q, message) == [q EXCEPT !.pc = "done", !.outcome = "panic"]

At(r, op, pc) == req[r].op = op /\ req[r].pc = pc

(***************************************************************************)
(* pay_offer                                                               *)
(***************************************************************************)
\* log the request, then extract the credential
pay_offer_check_auth(r) ==
    /\ At(r, "pay_offer", "start")
    /\ UNCHANGED <<fs, tls, codec>>
    /\ LET macaroon == check_auth_metadata(req[r].metadata)
           q == Ran(Logged(req[r], <<"Received a request: ", req[r].body>>),
                    "check_auth_metadata", macaroon.ok)
       IN req' = [req EXCEPT ![r] =
                    IF macaroon.ok
                    THEN Goto([q EXCEPT !.macaroon = Some(macaroon.val)], "get_lnd_client")
                    ELSE ReturnErr(q, macaroon.err)]
    /\ UNCHANGED <<active_payments, lock, entropy>>

\* build the node client from the certificate, the credential and the address
pay_offer_get_lnd_client(r) ==
    /\ At(r, "pay_offer", "get_lnd_client")
    /\ UNCHANGED <<fs, tls, codec>>
    /\ \E client \in ConnectResults :
         LET q == Ran(req[r], "get_lnd_client", client.ok) IN
         req' = [req EXCEPT ![r] =
                    IF client.ok
                    THEN Goto(q, "parse")
                    ELSE ReturnErr(q, Status("Unavailable",
                                             <<"Couldn't connect to lnd: ">> \o client.err.message))]
    /\ UNCHANGED <<active_payments, lock, entropy>>

pay_offer_parse_offer(r) ==
    /\ At(r, "pay_offer", "parse")
    /\ UNCHANGED <<fs, tls, codec>>
    /\ LET offer == Offer_from_str(req[r].body.text)
           q == Ran(req[r], "parse", offer.ok)
       IN req' = [req EXCEPT ![r] =
                    IF offer.ok
                    THEN Goto(q, "get_destination")
                    ELSE ReturnErr(q, Status("InvalidArgument",
                            <<"The provided offer was invalid. Please provide a valid offer in bech32 format, i.e. starting with 'lno'. Error: ">>
                            \o offer.err.message))]
    /\ UNCHANGED <<active_payments, lock, entropy>>

\* pay_offer going on to GetInfo whether or not the destination resolved
pay_offer_get_destination_unchecked(r) ==
    /\ At(r, "pay_offer", "get_destination")
    /\ UNCHANGED <<fs, tls, codec>>
    /\ \E destination \in DestinationResults :
         req' = [req EXCEPT ![r] =
                    Goto(Ran(req[r], "get_destination", destination.ok), "get_info")]
    /\ UNCHANGED <<active_payments, lock, entropy>>

pay_offer_get_destination(r) ==
    /\ At(r, "pay_offer", "get_destination")
    /\ UNCHANGED <<fs, tls, codec>>
    /\ \E destination \in DestinationResults :
         LET q == Ran(req[r], "get_destination", destination.ok) IN
         req' = [req EXCEPT ![r] =
                    IF destination.ok
                    THEN Goto(q, "get_info")
                    ELSE ReturnErr(q, Status("Internal",
                            <<"Internal error: Couldn't get destination from offer: ">>
                            \o destination.err.message))]
    /\ UNCHANGED <<active_payments, lock, entropy>>

\* client.lightning().get_info(..).await.expect("failed to get info")
pay_offer_get_info(r) ==
    /\ At(r, "pay_offer", "get_info")
    /\ UNCHANGED <<fs, tls, codec>>
    /\ \E info \in GetInfoResults :
         LET q == Ran(req[r], "get_info", info.ok) IN
         req' = [req EXCEPT ![r] =
                    IF info.ok
                    THEN Goto(q, "get_network")
                    ELSE Panic(q, <<"failed to get info">>)]
    /\ UNCHANGED <<active_payments, lock, entropy>>

pay_offer_get_network(r) ==
    /\ At(r, "pay_offer", "get_network")
    /\ UNCHANGED <<fs, tls, codec>>
    /\ \E network \in NetworkResults :
         LET q == Ran(req[r], "get_network", network.ok) IN
         req' = [req EXCEPT ![r] =
                    IF network.ok
                    THEN Goto(q, "handler")
                    ELSE ReturnErr(q, Status("Internal", network.err.message))]
    /\ UNCHANGED <<active_payments, lock, entropy>>

\* offer_handler.pay_offer(cfg): the handler negotiates the invoice; when it
\* has one it tracks the payment under a fresh payment id and goes on to
\* settle it, and when it has none it fails and the match maps its error.
pay_offer_call_handler(r) ==
    /\ At(r, "pay_offer", "handler")
    /\ UNCHANGED <<fs, tls, codec>>
    /\ \E negotiated \in HandlerResults :
         LET q == Ran(req[r], "handler", FALSE) IN
         IF negotiated.ok
         THEN /\ lock = None
              /\ req' = [req EXCEPT ![r] =
                            Goto([@ EXCEPT !.payment_id = Some(entropy),
                                           !.minted = @ \cup {entropy}], "settle")]
              /\ active_payments' = TrackPayment(active_payments, entropy)
              /\ entropy' = entropy + 1
         ELSE /\ req' = [req EXCEPT ![r] =
                            ReturnErr([q EXCEPT !.handler_err = Some(negotiated.err.code)],
                                      pay_offer_map_err(negotiated.err.code))]
              /\ UNCHANGED <<active_payments, entropy>>
    /\ UNCHANGED lock

\* the handler settles the invoice and stops tracking the payment; the match
\* on its result logs and builds the response, or maps the error
pay_offer_handler_returns(r) ==
    /\ At(r, "pay_offer", "settle")
    /\ UNCHANGED <<fs, tls, codec>>
    /\ lock = None
    /\ active_payments' = UntrackPayment(active_payments, Unwrap(req[r].payment_id))
    /\ \E payment \in HandlerResults :
         LET q == Ran(req[r], "handler", payment.ok) IN
         req' = [req EXCEPT ![r] =
                    IF payment.ok
                    THEN ReturnOk(Logged(q, <<"Payment succeeded.">>),
                                  [payment_preimage |-> payment.val])
                    ELSE ReturnErr([q EXCEPT !.handler_err = Some(payment.err.code)],
                                   pay_offer_map_err(payment.err.code))]
    /\ UNCHANGED <<lock, entropy>>

(***************************************************************************)
(* decode_invoice                                                          *)
(***************************************************************************)
\* decode_invoice asking for the credential as the other handlers do
decode_invoice_authenticated(r) ==
    /\ At(r, "decode_invoice", "start")
    /\ UNCHANGED <<fs, tls, codec>>
    /\ LET macaroon == check_auth_metadata(req[r].metadata)
           invoice == Bolt12Invoice_try_from(req[r].body.text)
           q == Ran(Logged(req[r], <<"Received a request: ", req[r].body>>), "parse", invoice.ok)
       IN req' = [req EXCEPT ![r] =
                    IF ~macaroon.ok
                    THEN ReturnErr(q, macaroon.err)
                    ELSE IF invoice.ok
                    THEN ReturnOk([q EXCEPT !.invoice = Some(invoice.val)],
                                  generate_bolt12_invoice_contents(invoice.val))
                    ELSE ReturnErr(q, Status("InvalidArgument", invoice.err.message))]
    /\ UNCHANGED <<active_payments, lock, entropy>>

decode_invoice(r) ==
    /\ At(r, "decode_invoice", "start")
    /\ UNCHANGED <<fs, tls, codec>>
    /\ LET invoice == Bolt12Invoice_try_from(req[r].body.text)
           q == Ran(Logged(req[r], <<"Received a request: ", req[r].body>>), "parse", invoice.ok)
       IN req' = [req EXCEPT ![r] =
                    IF invoice.ok
                    THEN ReturnOk([q EXCEPT !.invoice = Some(invoice.val)],
                                  generate_bolt12_invoice_contents(invoice.val))
                    ELSE ReturnErr(q, Status("InvalidArgument", invoice.err.message))]
    /\ UNCHANGED <<active_payments, lock, entropy>>

(***************************************************************************)
(* get_invoice                                                             *)
(***************************************************************************)
get_invoice_check_auth(r) ==
    /\ At(r, "get_invoice", "start")
    /\ UNCHANGED <<fs, tls, codec>>
    /\ LET macaroon == check_auth_metadata(req[r].metadata)
           q == Ran(Logged(req[r], <<"Received a request: ", req[r].body>>),
                    "check_auth_metadata", macaroon.ok)
       IN req' = [req EXCEPT ![r] =
                    IF macaroon.ok
                    THEN Goto([q EXCEPT !.macaroon = Some(macaroon.val)], "get_lnd_client")
                    ELSE ReturnErr(q, macaroon.err)]
    /\ UNCHANGED <<active_payments, lock, entropy>>

get_invoice_get_lnd_client(r) ==
    /\ At(r, "get_invoice", "get_lnd_client")
    /\ UNCHANGED <<fs, tls, codec>>
    /\ \E client \in ConnectResults :
         LET q == Ran(req[r], "get_lnd_client", client.ok) IN
         req' = [req EXCEPT ![r] =
                    IF client.ok
                    THEN Goto(q, "parse")
                    ELSE ReturnErr(q, Status("Unavailable",
                                             <<"Couldn't connect to lnd: ">> \o client.err.message))]
    /\ UNCHANGED <<active_payments, lock, entropy>>

\* get_invoice resolving the destination whether or not the offer parsed
get_invoice_parse_offer_unchecked(r) ==
    /\ At(r, "get_invoice", "parse")
    /\ UNCHANGED <<fs, tls, codec>>
    /\ LET offer == Offer_from_str(req[r].body.text) IN
       req' = [req EXCEPT ![r] = Goto(Ran(req[r], "parse", offer.ok), "get_destination")]
    /\ UNCHANGED <<active_payments, lock, entropy>>

get_invoice_parse_offer(r) ==
    /\ At(r, "get_invoice", "parse")
    /\ UNCHANGED <<fs, tls, codec>>
    /\ LET offer == Offer_from_str(req[r].body.text)
           q == Ran(req[r], "parse", offer.ok)
       IN req' = [req EXCEPT ![r] =
                    IF offer.ok
                    THEN Goto(q, "get_destination")
                    ELSE ReturnErr(q, Status("InvalidArgument",
                            <<"The provided offer was invalid. Please provide a valid offer in bech32 format, i.e. starting with 'lno'. Error: ">>
                            \o offer.err.message))]
    /\ UNCHANGED <<active_payments, lock, entropy>>

get_invoice_get_destination(r) ==
    /\ At(r, "get_invoice", "get_destination")
    /\ UNCHANGED <<fs, tls, codec>>
    /\ \E destination \in DestinationResults :
         LET q == Ran(req[r], "get_destination", destination.ok) IN
         req' = [req EXCEPT ![r] =
                    IF destination.ok
                    THEN Goto(q, "get_info")
                    ELSE ReturnErr(q, Status("Unavailable",
                            <<"Couldn't find destination: ">> \o destination.err.message))]
    /\ UNCHANGED <<active_payments, lock, entropy>>

get_invoice_get_info(r) ==
    /\ At(r, "get_invoice", "get_info")
    /\ UNCHANGED <<fs, tls, codec>>
    /\ \E info \in GetInfoResults :
         LET q == Ran(req[r], "get_info", info.ok) IN
         req' = [req EXCEPT ![r] =
                    IF info.ok
                    THEN Goto(q, "get_network")
                    ELSE Panic(q, <<"failed to get info">>)]
    /\ UNCHANGED <<active_payments, lock, entropy>>

get_invoice_get_network(r) ==
    /\ At(r, "get_invoice", "get_network")
    /\ UNCHANGED <<fs, tls, codec>>
    /\ \E network \in NetworkResults :
         LET q == Ran(req[r], "get_network", network.ok) IN
         req' = [req EXCEPT ![r] =
                    IF network.ok
                    THEN Goto(q, "handler")
                    ELSE ReturnErr(q, Status("Internal", network.err.message))]
    /\ UNCHANGED <<active_payments, lock, entropy>>

\* offer_handler.get_invoice(cfg): on success the handler has tracked the
\* invoice under a fresh payment id and returns both; on failure it tracks
\* nothing and the match maps its error.
get_invoice_call_handler(r) ==
    /\ At(r, "get_invoice", "handler")
    /\ UNCHANGED <<fs, tls, codec>>
    /\ \E negotiated \in HandlerResults :
         LET q == Ran(req[r], "handler", negotiated.ok) IN
         IF negotiated.ok
         THEN /\ lock = None
              /\ req' = [req EXCEPT ![r] =
                            Goto([Logged(q, <<"Invoice request succeeded.">>)
                                    EXCEPT !.payment_id = Some(entropy),
                                           !.minted = @ \cup {entropy},
                                           !.invoice = Some(NegotiatedInvoice)], "lock")]
              /\ active_payments' = TrackPayment(active_payments, entropy)
              /\ entropy' = entropy + 1
         ELSE /\ req' = [req EXCEPT ![r] =
                            ReturnErr([q EXCEPT !.handler_err = Some(negotiated.err.code)],
                                      get_invoice_map_err(negotiated.err.code))]
              /\ UNCHANGED <<active_payments, entropy>>
    /\ UNCHANGED lock

\* get_invoice assembling the response without the cleanup block
get_invoice_lock_skipped(r) ==
    /\ At(r, "get_invoice", "lock")
    /\ UNCHANGED <<fs, tls, codec>>
    /\ req' = [req EXCEPT ![r] = Goto(@, "reply")]
    /\ UNCHANGED <<active_payments, lock, entropy>>

\* self.offer_handler.active_payments.lock().unwrap()
get_invoice_lock(r) ==
    /\ At(r, "get_invoice", "lock")
    /\ UNCHANGED <<fs, tls, codec>>
    /\ lock = None
    /\ lock' = Some(r)
    /\ req' = [req EXCEPT ![r] = Goto(Ran(@, "lock", TRUE), "remove")]
    /\ UNCHANGED <<active_payments, entropy>>

\* get_invoice keeping the guard after the removal
get_invoice_remove_guard_kept(r) ==
    /\ At(r, "get_invoice", "remove")
    /\ UNCHANGED <<fs, tls, codec>>
    /\ lock = Some(r)
    /\ active_payments' = active_payments \ req[r].payment_id
    /\ req' = [req EXCEPT ![r] = Goto(Ran(@, "remove", TRUE), "reply")]
    /\ UNCHANGED <<lock, entropy>>

\* get_invoice clearing the map instead of removing its payment id
get_invoice_remove_clear(r) ==
    /\ At(r, "get_invoice", "remove")
    /\ UNCHANGED <<fs, tls, codec>>
    /\ lock = Some(r)
    /\ active_payments' = {}
    /\ lock' = None
    /\ req' = [req EXCEPT ![r] = Goto(Ran(@, "remove", TRUE), "reply")]
    /\ UNCHANGED entropy

\* get_invoice taking the lock and dropping it without the removal
get_invoice_remove_skipped(r) ==
    /\ At(r, "get_invoice", "remove")
    /\ UNCHANGED <<fs, tls, codec>>
    /\ lock = Some(r)
    /\ lock' = None
    /\ req' = [req EXCEPT ![r] = Goto(Ran(@, "remove", TRUE), "reply")]
    /\ UNCHANGED <<active_payments, entropy>>

\* active_payments.remove(&payment_id), then the guard is dropped
get_invoice_remove(r) ==
    /\ At(r, "get_invoice", "remove")
    /\ UNCHANGED <<fs, tls, codec>>
    /\ lock = Some(r)
    /\ active_payments' = active_payments \ req[r].payment_id
    /\ lock' = None
    /\ req' = [req EXCEPT ![r] = Goto(Ran(@, "remove", TRUE), "reply")]
    /\ UNCHANGED entropy

\* the response: the invoice as hex and its contents
get_invoice_reply(r) ==
    /\ At(r, "get_invoice", "reply")
    /\ UNCHANGED <<fs, tls, codec>>
    /\ \E written \in WriteResults :
         LET invoice == Unwrap(req[r].invoice)
             hex == encode_invoice_as_hex(invoice, written)
             q == Ran(req[r], "encode", hex.ok)
         IN req' = [req EXCEPT ![r] =
                      IF hex.ok
                      THEN ReturnOk(q, [invoice_hex_str |-> hex.val,
                                        invoice_contents |-> generate_bolt12_invoice_contents(invoice)])
                      ELSE ReturnErr(q, hex.err)]
    /\ UNCHANGED <<active_payments, lock, entropy>>

(***************************************************************************)
(* pay_invoice                                                             *)
(***************************************************************************)
pay_invoice_check_auth(r) ==
    /\ At(r, "pay_invoice", "start")
    /\ UNCHANGED <<fs, tls, codec>>
    /\ LET macaroon == check_auth_metadata(req[r].metadata)
           q == Ran(Logged(req[r], <<"Received a request: ", req[r].body>>),
                    "check_auth_metadata", macaroon.ok)
       IN req' = [req EXCEPT ![r] =
                    IF macaroon.ok
                    THEN Goto([q EXCEPT !.macaroon = Some(macaroon.val)], "get_lnd_client")
                    ELSE ReturnErr(q, macaroon.err)]
    /\ UNCHANGED <<active_payments, lock, entropy>>

\* pay_invoice reporting the credentials it could not connect with
pay_invoice_get_lnd_client_leaky(r) ==
    /\ At(r, "pay_invoice", "get_lnd_client")
    /\ UNCHANGED <<fs, tls, codec>>
    /\ \E client \in ConnectResults :
         LET q == Ran(req[r], "get_lnd_client", client.ok) IN
         req' = [req EXCEPT ![r] =
                    IF client.ok
                    THEN Goto(q, "parse")
                    ELSE ReturnErr(q, Status("Unavailable",
                                             <<"Couldn't connect to lnd: ", q.macaroon>>
                                             \o client.err.message))]
    /\ UNCHANGED <<active_payments, lock, entropy>>

pay_invoice_get_lnd_client(r) ==
    /\ At(r, "pay_invoice", "get_lnd_client")
    /\ UNCHANGED <<fs, tls, codec>>
    /\ \E client \in ConnectResults :
         LET q == Ran(req[r], "get_lnd_client", client.ok) IN
         req' = [req EXCEPT ![r] =
                    IF client.ok
                    THEN Goto(q, "parse")
                    ELSE ReturnErr(q, Status("Unavailable",
                                             <<"Couldn't connect to lnd: ">> \o client.err.message))]
    /\ UNCHANGED <<active_payments, lock, entropy>>

pay_invoice_parse_invoice(r) ==
    /\ At(r, "pay_invoice", "parse")
    /\ UNCHANGED <<fs, tls, codec>>
    /\ LET invoice == Bolt12Invoice_try_from(req[r].body.text)
           q == Ran(req[r], "parse", invoice.ok)
       IN req' = [req EXCEPT ![r] =
                    IF invoice.ok
                    THEN Goto([q EXCEPT !.invoice = Some(invoice.val)], "validate_amount")
                    ELSE ReturnErr(q, Status("InvalidArgument",
                            <<"The provided invoice was invalid. Please provide a valid invoice in hex format. Error: ">>
                            \o invoice.err.message))]
    /\ UNCHANGED <<active_payments, lock, entropy>>

\* pay_invoice paying the requested amount when the validation fails
pay_invoice_validate_amount_unchecked(r) ==
    /\ At(r, "pay_invoice", "validate_amount")
    /\ UNCHANGED <<fs, tls, codec>>
    /\ LET amount == validate_amount(Unwrap(req[r].invoice).amount, req[r].body.amount)
           q == Ran(req[r], "validate_amount", amount.ok)
       IN req' = [req EXCEPT ![r] =
                    Goto([q EXCEPT !.amount = IF amount.ok THEN Some(amount.val) ELSE q.body.amount],
                         "mint_payment_id")]
    /\ UNCHANGED <<active_payments, lock, entropy>>

pay_invoice_validate_amount(r) ==
    /\ At(r, "pay_invoice", "validate_amount")
    /\ UNCHANGED <<fs, tls, codec>>
    /\ LET amount == validate_amount(Unwrap(req[r].invoice).amount, req[r].body.amount)
           q == Ran(req[r], "validate_amount", amount.ok)
       IN req' = [req EXCEPT ![r] =
                    IF amount.ok
                    THEN Goto([q EXCEPT !.amount = Some(amount.val)], "mint_payment_id")
                    ELSE ReturnErr(q, Status("InvalidArgument", amount.err.message))]
    /\ UNCHANGED <<active_payments, lock, entropy>>

\* PaymentId(self.offer_handler.messenger_utils.get_secure_random_bytes())
pay_invoice_mint_payment_id(r) ==
    /\ At(r, "pay_invoice", "mint_payment_id")
    /\ UNCHANGED <<fs, tls, codec>>
    /\ req' = [req EXCEPT ![r] =
                  Goto([Ran(@, "mint_payment_id", TRUE) EXCEPT !.payment_id = Some(entropy),
                                                         !.minted = @ \cup {entropy}], "handler")]
    /\ entropy' = entropy + 1
    /\ UNCHANGED <<active_payments, lock>>

\* offer_handler.pay_invoice(client, amount, &invoice, payment_id)
pay_invoice_call_handler(r) ==
    /\ At(r, "pay_invoice", "handler")
    /\ UNCHANGED <<fs, tls, codec>>
    /\ lock = None
    /\ active_payments' = UntrackPayment(active_payments, Unwrap(req[r].payment_id))
    /\ \E paid \in HandlerResults :
         LET q == Ran(req[r], "handler", paid.ok) IN
         req' = [req EXCEPT ![r] =
                    IF paid.ok
                    THEN ReturnOk(Logged(q, <<"Invoice paid.">>),
                                  [payment_preimage |-> paid.val])
                    ELSE ReturnErr([q EXCEPT !.handler_err = Some(paid.err.code)],
                                   Status("Internal", <<"Error paying invoice: ", paid.err.code>>))]
    /\ UNCHANGED <<lock, entropy>>

(***************************************************************************)
(* generate_tls_creds and collect_tls_ips.  The data directory holds the   *)
(* key file and the certificate file; a call runs statement by statement   *)
(* and every filesystem statement may fail, leaving what it wrote.         *)
(***************************************************************************)
\* calls of generate_tls_creds in one behaviour
MaxCalls == 3
\* longest tls_ips_string, in characters
MaxIpStrLen == 2

\* perms.set_mode(0o600)
KeyMode == 384

\* the mode File::create gives a new file: 0o666 less the umask (022, 000, 066)
CreateModes == {420, 438, 384}

Chars == {"1", ","}

TlsIpsStrings == {None} \cup {Some(str) : str \in SeqsUpTo(Chars, MaxIpStrLen)}

\* str::split: the pieces between the separators, one more than there are
\* separators, empty pieces included
RECURSIVE split(_, _)
split(str, sep) ==
    IF \E i \in 1..Len(str) : str[i] = sep
    THEN LET i == CHOOSE k \in 1..Len(str) :
                    str[k] = sep /\ \A j \in 1..(k - 1) : str[j] /= sep
         IN <<SubSeq(str, 1, i - 1)>> \o split(SubSeq(str, i + 1, Len(str)), sep)
    ELSE <<str>>

collect_tls_ips(tls_ips_str) ==
    IF tls_ips_str = None
    THEN None
    ELSE Some(split(Unwrap(tls_ips_str), ","))

\* vec!["localhost"] and the ips pushed after it
subject_alt_names(tls_ips) ==
    IF tls_ips = None THEN <<"localhost">> ELSE <<"localhost">> \o Unwrap(tls_ips)

\* What a file holds: nothing, or the PEM of the key pair or certificate of
\* generation `gen` (for the certificate, with its subject alternative
\* names), in part or in full.
Empty == [gen |-> 0, sans |-> <<>>, part |-> "empty"]

Pem(gen, sans, part) == [gen |-> gen, sans |-> sans, part |-> part]

NoFile == [exists |-> FALSE, mode |-> 0, content |-> Empty]

EmptyDir == [key |-> NoFile, cert |-> NoFile]

\* File::create: a new empty file with the mode the umask leaves, or the
\* existing file truncated, its mode kept
Created(file, mode) ==
    [exists |-> TRUE, mode |-> IF file.exists THEN file.mode ELSE mode, content |-> Empty]

\* what a write that failed may leave of the PEM it was writing
FailedWrites == {"empty", "partial"}

TlsIdle ==
    [pc |-> "idle", tls_ips_string |-> None, tls_ips |-> None, sans |-> <<>>,
     gen |-> 0, result |-> "none", calls |-> 0, ok_calls |-> 0, generated |-> 0]

TlsReturn(t, result) ==
    [t EXCEPT !.pc = "idle", !.result = result, !.calls = @ + 1,
              !.ok_calls = IF result = "Ok" THEN @ + 1 ELSE @]

\* generate_tls_creds generating whether or not the files exist
generate_tls_creds_begin_always ==
    /\ tls.pc = "idle"
    /\ tls.calls < MaxCalls
    /\ \E tls_ips_string \in TlsIpsStrings :
         tls' = [tls EXCEPT !.tls_ips_string = tls_ips_string,
                            !.tls_ips = collect_tls_ips(tls_ips_string),
                            !.sans = <<>>, !.gen = 0, !.result = "none",
                            !.pc = "generate"]
    /\ UNCHANGED <<fs, server_vars, codec>>

\* lines 325-330: the paths, the ips, and whether both files exist
generate_tls_creds_begin ==
    /\ tls.pc = "idle"
    /\ tls.calls < MaxCalls
    /\ \E tls_ips_string \in TlsIpsStrings :
         LET t == [tls EXCEPT !.tls_ips_string = tls_ips_string,
                              !.tls_ips = collect_tls_ips(tls_ips_string),
                              !.sans = <<>>, !.gen = 0, !.result = "none"]
         IN tls' = IF ~fs.key.exists \/ ~fs.cert.exists
                   THEN [t EXCEPT !.pc = "generate"]
                   ELSE TlsReturn(t, "Ok")
    /\ UNCHANGED <<fs, server_vars, codec>>

\* lines 331-340: the names and generate_simple_self_signed
generate_tls_creds_generate ==
    /\ tls.pc = "generate"
    /\ \E generated \in BOOLEAN :
         tls' = IF generated
                THEN [tls EXCEPT !.pc = "create_key",
                                 !.sans = subject_alt_names(tls.tls_ips),
                                 !.gen = tls.generated + 1,
                                 !.generated = @ + 1]
                ELSE TlsReturn(tls, "RcgenError")
    /\ UNCHANGED <<fs, server_vars, codec>>

\* generate_tls_creds writing the key as it creates the file, before the mode is set
generate_tls_creds_create_key_written ==
    /\ tls.pc = "create_key"
    /\ \/ \E mode \in CreateModes :
            /\ fs' = [fs EXCEPT !.key = [Created(@, mode) EXCEPT
                                           !.content = Pem(tls.gen, <<>>, "full")]]
            /\ tls' = [tls EXCEPT !.pc = "set_permissions"]
       \/ /\ tls' = TlsReturn(tls, "IoError")
          /\ UNCHANGED fs
    /\ UNCHANGED <<server_vars, codec>>

\* line 343: File::create(&key_path)
generate_tls_creds_create_key ==
    /\ tls.pc = "create_key"
    /\ \/ \E mode \in CreateModes :
            /\ fs' = [fs EXCEPT !.key = Created(@, mode)]
            /\ tls' = [tls EXCEPT !.pc = "set_permissions"]
       \/ /\ tls' = TlsReturn(tls, "IoError")
          /\ UNCHANGED fs
    /\ UNCHANGED <<server_vars, codec>>

\* lines 344-348: metadata(&key_path), set_mode(0o600), set_permissions
generate_tls_creds_set_permissions ==
    /\ tls.pc = "set_permissions"
    /\ \/ /\ fs' = [fs EXCEPT !.key.mode = KeyMode]
          /\ tls' = [tls EXCEPT !.pc = "write_key"]
       \/ /\ tls' = TlsReturn(tls, "IoError")
          /\ UNCHANGED fs
    /\ UNCHANGED <<server_vars, codec>>

\* lines 350-352: file.write_all(key_pair.serialize_pem()), drop(file)
generate_tls_creds_write_key ==
    /\ tls.pc = "write_key"
    /\ \/ /\ fs' = [fs EXCEPT !.key.content = Pem(tls.gen, <<>>, "full")]
          /\ tls' = [tls EXCEPT !.pc = "write_cert"]
       \/ \E left \in FailedWrites :
            /\ fs' = [fs EXCEPT !.key.content =
                        IF left = "empty" THEN Empty ELSE Pem(tls.gen, <<>>, left)]
            /\ tls' = TlsReturn(tls, "IoError")
    /\ UNCHANGED <<server_vars, codec>>

\* lines 354-357: std::fs::write(&cert_path, cert.pem()), which creates the
\* file and then writes it, and Ok(())
generate_tls_creds_write_cert ==
    /\ tls.pc = "write_cert"
    /\ \/ \E mode \in CreateModes :
            /\ fs' = [fs EXCEPT !.cert = [Created(@, mode) EXCEPT
                                            !.content = Pem(tls.gen, tls.sans, "full")]]
            /\ tls' = TlsReturn(tls, "Ok")
       \/ \E mode \in CreateModes, left \in FailedWrites :
            /\ fs' = [fs EXCEPT !.cert = [Created(@, mode) EXCEPT
                                            !.content = IF left = "empty" THEN Empty
                                                        ELSE Pem(tls.gen, tls.sans, left)]]
            /\ tls' = TlsReturn(tls, "IoError")
       \/ /\ tls' = TlsReturn(tls, "IoError")
          /\ UNCHANGED fs
    /\ UNCHANGED <<server_vars, codec>>

(***************************************************************************)
(* convert_blinded_path and convert_public_key.                            *)
(***************************************************************************)
\* largest short channel id of a blinded path's introduction node
MaxScid == 1
\* most blinded hops of a path
MaxHops == 1

PublicKeys == {"pk1", "pk2"}

Directions == {"NodeOne", "NodeTwo"}

\* IntroductionNode::NodeId(pubkey) and
\* IntroductionNode::DirectedShortChannelId(direction, scid)
IntroductionNodes ==
    {<<"NodeId", pubkey>> : pubkey \in PublicKeys}
    \cup {<<"DirectedShortChannelId", direction, scid>> :
            direction \in Directions, scid \in 0..MaxScid}

BlindedHops == [blinded_node_id : PublicKeys, encrypted_payload : {<<>>, <<7>>}]

BlindedPaymentPaths ==
    [introduction_node : IntroductionNodes,
     blinding_point : PublicKeys,
     blinded_hops : SeqsUpTo(BlindedHops, MaxHops)]

\* the key's compressed serialization
convert_public_key(native_pub_key) == [key |-> <<"compressed", native_pub_key>>]

\* the match on Direction with both arms giving NodeOne
rpc_direction_node_one(direction) ==
    CASE direction = "NodeOne" -> "lndkrpc::Direction::NodeOne"
      [] direction = "NodeTwo" -> "lndkrpc::Direction::NodeOne"

\* the match on Direction
rpc_direction(direction) ==
    CASE direction = "NodeOne" -> "lndkrpc::Direction::NodeOne"
      [] direction = "NodeTwo" -> "lndkrpc::Direction::NodeTwo"

convert_blinded_path(native_info) ==
    LET native == native_info.introduction_node
        introduction_node ==
            IF native[1] = "NodeId"
            THEN [node_id |-> Some(convert_public_key(native[2])),
                  directed_short_channel_id |-> None]
            ELSE [node_id |-> None,
                  directed_short_channel_id |->
                      Some([direction |-> rpc_direction(native[2]), scid |-> native[3]])]
    IN [introduction_node |-> Some(introduction_node),
        blinding_point |-> Some(convert_public_key(native_info.blinding_point)),
        blinded_hops |->
            [i \in 1..Len(native_info.blinded_hops) |->
                [blinded_node_id |->
                     Some(convert_public_key(native_info.blinded_hops[i].blinded_node_id)),
                 encrypted_payload |-> native_info.blinded_hops[i].encrypted_payload]]]

\* extract_payment_paths converting one path of an invoice
extract_payment_path ==
    /\ codec.rpc = None
    /\ codec' = [codec EXCEPT !.rpc = Some(convert_blinded_path(codec.native))]
    /\ UNCHANGED <<server_vars, fs, tls>>

(***************************************************************************)
(* The specifications.  Spec follows one request with every input; SpecConc *)
(* follows MaxConc requests in flight together.                            *)
(***************************************************************************)
Init ==
    /\ req \in [{1} -> Requests]
    /\ active_payments = {}
    /\ lock = None
    /\ entropy = 1
    /\ fs = EmptyDir
    /\ tls = TlsIdle
    /\ codec = <<>>

InitConc ==
    /\ req \in [1..MaxConc -> ConcRequests]
    /\ active_payments = {}
    /\ lock = None
    /\ entropy = 1
    /\ fs = EmptyDir
    /\ tls = TlsIdle
    /\ codec = <<>>

\* the bootstrap before the service accepts requests: an empty data directory
InitTls ==
    /\ req = <<>>
    /\ active_payments = {}
    /\ lock = None
    /\ entropy = 1
    /\ fs = EmptyDir
    /\ tls = TlsIdle
    /\ codec = <<>>

NextTls ==
    \/ generate_tls_creds_begin
    \/ generate_tls_creds_generate
    \/ generate_tls_creds_create_key
    \/ generate_tls_creds_set_permissions
    \/ generate_tls_creds_write_key
    \/ generate_tls_creds_write_cert

Next ==
    \E r \in DOMAIN req :
        \/ pay_offer_check_auth(r)
        \/ pay_offer_get_lnd_client(r)
        \/ pay_offer_parse_offer(r)
        \/ pay_offer_get_destination(r)
        \/ pay_offer_get_info(r)
        \/ pay_offer_get_network(r)
        \/ pay_offer_call_handler(r)
        \/ pay_offer_handler_returns(r)
        \/ decode_invoice(r)
        \/ get_invoice_check_auth(r)
        \/ get_invoice_get_lnd_client(r)
        \/ get_invoice_parse_offer(r)
        \/ get_invoice_get_destination(r)
        \/ get_invoice_get_info(r)
        \/ get_invoice_get_network(r)
        \/ get_invoice_call_handler(r)
        \/ get_invoice_lock(r)
        \/ get_invoice_remove(r)
        \/ get_invoice_reply(r)
        \/ pay_invoice_check_auth(r)
        \/ pay_invoice_get_lnd_client(r)
        \/ pay_invoice_parse_invoice(r)
        \/ pay_invoice_validate_amount(r)
        \/ pay_invoice_mint_payment_id(r)
        \/ pay_invoice_call_handler(r)

Spec == Init /\ [][Next]_vars

SpecConc == InitConc /\ [][Next]_vars

\* two requests for the same operation with the same message, each with a
\* credential of its own
InitPair ==
    /\ req \in {pair \in [{1, 2} -> Requests] :
                  /\ pair[1].op = pair[2].op
                  /\ pair[1].body = pair[2].body
                  /\ pair[1].metadata.macaroon /= None
                  /\ pair[2].metadata.macaroon /= None}
    /\ active_payments = {}
    /\ lock = None
    /\ entropy = 1
    /\ fs = EmptyDir
    /\ tls = TlsIdle
    /\ codec = <<>>

SpecPair == InitPair /\ [][Next]_vars

\* a blinded payment path of an invoice, to be converted
InitCodec ==
    /\ req = <<>>
    /\ active_payments = {}
    /\ lock = None
    /\ entropy = 1
    /\ fs = EmptyDir
    /\ tls = TlsIdle
    /\ codec \in [native : BlindedPaymentPaths, rpc : {None}]

NextCodec == extract_payment_path

SpecCodec == InitCodec /\ [][NextCodec]_vars

SpecTls == InitTls /\ [][NextTls]_vars

(***************************************************************************)
(* What the claims speak of.                                               *)
(***************************************************************************)
Done(r) == req[r].pc = "done"

StepsOf(r) == {req[r].trace[i].step : i \in 1..Len(req[r].trace)}

StepNames(r) == [i \in 1..Len(req[r].trace) |-> req[r].trace[i].step]

\* the request ended because the statement `step` failed
FailedAt(r, step) ==
    /\ Done(r)
    /\ Len(req[r].trace) > 0
    /\ req[r].trace[Len(req[r].trace)] = [step |-> step, ok |-> FALSE]

Returned(r, code) == Done(r) /\ req[r].outcome = "err" /\ req[r].status.code = code

AuthOps == {"pay_offer", "get_invoice", "pay_invoice"}

\* the statements that reach the node or the offer handler
NodeContactSteps == {"get_lnd_client", "get_destination", "get_info", "get_network", "handler"}

IsPrefix(s, t) == Len(s) <= Len(t) /\ \A i \in 1..Len(s) : s[i] = t[i]

(***************************************************************************)
(* C1..C10                                                                 *)
(***************************************************************************)
\* C1: in pay_offer, get_invoice and pay_invoice a request without a
\* `macaroon` metadata entry is either not yet handled or has ended with
\* status Unauthenticated; no node-contact step has run for it, no payment
\* id was minted and Active Payments and its lock were never touched.
C1_NoMacaroonUnauthenticated ==
    \A r \in DOMAIN req :
        (req[r].op \in AuthOps /\ req[r].metadata.macaroon = None) =>
            /\ req[r].pc = "start" \/ Returned(r, "Unauthenticated")
            /\ StepsOf(r) \cap NodeContactSteps = {}
            /\ StepsOf(r) \subseteq {"check_auth_metadata"}
            /\ req[r].minted = {}
            /\ active_payments = {}
            /\ lock = None
            /\ entropy = 1

C1_Witness ==
    \E r \in DOMAIN req :
        /\ req[r].op = "pay_invoice"
        /\ req[r].metadata.macaroon = None
        /\ Returned(r, "Unauthenticated")
        /\ StepNames(r) = <<"check_auth_metadata">>

\* C2: a completed get_invoice request, succeeded or failed at whatever
\* step, has left none of the payment ids minted for it in Active Payments,
\* and when every request has completed Active Payments is empty.
C2_NoLeakedPayment ==
    /\ \A r \in DOMAIN req :
          (req[r].op = "get_invoice" /\ Done(r)) => active_payments \cap req[r].minted = {}
    /\ (\A r \in DOMAIN req : Done(r)) => active_payments = {}

C2_Witness ==
    /\ \A r \in DOMAIN req : Done(r)
    /\ \E r \in DOMAIN req :
          /\ req[r].op = "get_invoice"
          /\ req[r].outcome = "ok"
          /\ req[r].minted /= {}
          /\ "remove" \in StepsOf(r)
    /\ \E r \in DOMAIN req :
          /\ req[r].op = "get_invoice"
          /\ FailedAt(r, "handler")
    /\ active_payments = {}

\* C3 (as claimed): when GetInfo fails in pay_offer or get_invoice the
\* request ends with status Internal returned to the caller.
C3_GetInfoFailureIsInternal ==
    \A r \in DOMAIN req :
        (req[r].op \in OfferOps /\ FailedAt(r, "get_info")) => Returned(r, "Internal")

\* C4: in pay_offer and get_invoice a request that ended on the offer
\* handler's error has status InvalidArgument when the error is InvalidAmount
\* or InvalidCurrency and status Internal for every other error, and the two
\* handlers map every error to the same status.
C4_HandlerErrorMapping ==
    /\ \A r \in DOMAIN req :
          (req[r].op \in OfferOps /\ FailedAt(r, "handler")) =>
              /\ req[r].handler_err /= None
              /\ Returned(r, IF Unwrap(req[r].handler_err) \in {"InvalidAmount", "InvalidCurrency"}
                             THEN "InvalidArgument"
                             ELSE "Internal")
    /\ \A e \in OfferErrors : pay_offer_map_err(e) = get_invoice_map_err(e)

C4_Witness ==
    /\ \E r \in DOMAIN req :
          /\ req[r].op = "pay_offer"
          /\ req[r].handler_err = Some("InvalidAmount")
          /\ Returned(r, "InvalidArgument")
    /\ \E r \in DOMAIN req :
          /\ req[r].op = "get_invoice"
          /\ req[r].handler_err = Some("InvoiceTimeout")
          /\ Returned(r, "Internal")

\* C5 (as claimed): in pay_offer and get_invoice a run that ends with the
\* offer-parse failure returns InvalidArgument and has made no node contact:
\* no node client was built.
C5_ParseFailureBeforeNodeContact ==
    \A r \in DOMAIN req :
        (req[r].op \in OfferOps /\ FailedAt(r, "parse")) =>
            /\ Returned(r, "InvalidArgument")
            /\ StepsOf(r) \cap NodeContactSteps = {}

\* C5 (amended): a malformed offer is rejected with InvalidArgument at the
\* offer-parsing step, which runs after credential extraction and after the
\* node client was built and before destination resolution, GetInfo,
\* get_network and the offer handler; none of these runs for a malformed
\* offer, and Active Payments and the entropy source are untouched.
C5_ParseFailureBeforeResolution ==
    \A r \in DOMAIN req :
        (req[r].op \in OfferOps /\ ~Offer_from_str(req[r].body.text).ok) =>
            /\ StepsOf(r) \subseteq {"check_auth_metadata", "get_lnd_client", "parse"}
            /\ "parse" \in StepsOf(r) =>
                  /\ FailedAt(r, "parse")
                  /\ Returned(r, "InvalidArgument")
                  /\ StepNames(r) = <<"check_auth_metadata", "get_lnd_client", "parse">>
            /\ Done(r) => req[r].outcome = "err" /\ req[r].reply = None
            /\ req[r].minted = {}
            /\ active_payments = {}
            /\ entropy = 1

C5_Witness ==
    \E r \in DOMAIN req :
        /\ req[r].op = "get_invoice"
        /\ req[r].body.text = "not-an-offer"
        /\ FailedAt(r, "parse")
        /\ Returned(r, "InvalidArgument")
        /\ req[r].trace[2] = [step |-> "get_lnd_client", ok |-> TRUE]

\* C6 (as claimed): a request returns Unavailable only when the node client
\* could not be built, and a failure to resolve the destination returns
\* Internal in pay_offer and in get_invoice alike.
C6_UnavailableOnlyForNodeClient ==
    \A r \in DOMAIN req :
        /\ Returned(r, "Unavailable") => FailedAt(r, "get_lnd_client")
        /\ (req[r].op \in OfferOps /\ FailedAt(r, "get_destination")) => Returned(r, "Internal")

\* The order of the statements of each handler.
StepOrder(op) ==
    CASE op = "pay_offer" ->
            <<"check_auth_metadata", "get_lnd_client", "parse", "get_destination",
              "get_info", "get_network", "handler">>
      [] op = "get_invoice" ->
            <<"check_auth_metadata", "get_lnd_client", "parse", "get_destination",
              "get_info", "get_network", "handler", "lock", "remove", "encode">>
      [] op = "pay_invoice" ->
            <<"check_auth_metadata", "get_lnd_client", "parse", "validate_amount",
              "mint_payment_id", "handler">>
      [] op = "decode_invoice" -> <<"parse">>

SetupSteps ==
    {"check_auth_metadata", "get_lnd_client", "parse", "get_destination", "get_info",
     "get_network"}

\* C7: the statements a request has run are a prefix of its handler's fixed
\* order (credential, node client, parsing, destination, GetInfo and network,
\* operation); a statement that failed is the last one the request ran and
\* the request has ended without success (an error status, or the panic of a
\* failed GetInfo) and without a response payload; a request that ended on a
\* failed setup step has minted no payment id and left Active Payments empty.
C7_FirstFailureShortCircuits ==
    \A r \in DOMAIN req :
        /\ IsPrefix(StepNames(r), StepOrder(req[r].op))
        /\ \A i \in 1..Len(req[r].trace) :
              ~req[r].trace[i].ok =>
                  /\ i = Len(req[r].trace)
                  /\ Done(r)
                  /\ req[r].outcome \in {"err", "panic"}
        /\ req[r].outcome /= "ok" => req[r].reply = None
        /\ req[r].outcome = "ok" =>
              /\ StepNames(r) = StepOrder(req[r].op)
              /\ \A i \in 1..Len(req[r].trace) : req[r].trace[i].ok
        /\ (\E step \in SetupSteps : FailedAt(r, step)) =>
              /\ req[r].minted = {}
              /\ active_payments = {}
              /\ lock = None
              /\ entropy = 1

C7_Witness ==
    \E r \in DOMAIN req :
        /\ req[r].op = "pay_offer"
        /\ FailedAt(r, "get_destination")
        /\ Returned(r, "Internal")
        /\ Len(req[r].trace) = 4
        /\ req[r].reply = None

\* C8: in pay_invoice the amount is validated before a payment id is minted
\* and before the invoice is submitted: a request whose validation failed has
\* returned InvalidArgument, has minted no payment id and has not called the
\* offer handler; a request whose submission failed has returned Internal.
C8_ValidateBeforeMintAndSubmit ==
    \A r \in DOMAIN req :
        req[r].op = "pay_invoice" =>
            /\ (req[r].payment_id /= None \/ "handler" \in StepsOf(r)) =>
                  /\ Len(req[r].trace) >= 4
                  /\ req[r].trace[4] = [step |-> "validate_amount", ok |-> TRUE]
                  /\ req[r].amount /= None
            /\ "handler" \in StepsOf(r) => req[r].payment_id /= None
            /\ [step |-> "validate_amount", ok |-> FALSE] \in
                    {req[r].trace[i] : i \in 1..Len(req[r].trace)} =>
                  /\ Returned(r, "InvalidArgument")
                  /\ req[r].payment_id = None
                  /\ req[r].minted = {}
                  /\ entropy = 1
                  /\ "handler" \notin StepsOf(r)
                  /\ "mint_payment_id" \notin StepsOf(r)
            /\ FailedAt(r, "handler") => Returned(r, "Internal")

C8_Witness ==
    \E r \in DOMAIN req :
        /\ req[r].op = "pay_invoice"
        /\ req[r].body.text = "invoice-amount-1"
        /\ req[r].body.amount = Some(2)
        /\ FailedAt(r, "validate_amount")
        /\ Returned(r, "InvalidArgument")

\* C9: decode_invoice reads no credential, builds no node client, reaches
\* neither the node nor the offer handler and leaves Active Payments alone;
\* two decode_invoice requests with the same invoice text end alike, with or
\* without a `macaroon` entry, and an undecodable text gives InvalidArgument.
C9_DecodeNeedsNoCredential ==
    \A r \in DOMAIN req :
        req[r].op = "decode_invoice" =>
            /\ req[r].macaroon = None
            /\ StepsOf(r) \subseteq {"parse"}
            /\ req[r].minted = {}
            /\ req[r].payment_id = None
            /\ Done(r) => \/ req[r].outcome = "ok" /\ req[r].reply /= None
                          \/ Returned(r, "InvalidArgument") /\ req[r].body.text = "zz"
            /\ \A o \in DOMAIN req :
                  (/\ req[o].op = "decode_invoice"
                   /\ req[o].body.text = req[r].body.text
                   /\ Done(o) /\ Done(r)) =>
                      /\ req[o].outcome = req[r].outcome
                      /\ req[o].status = req[r].status
                      /\ req[o].reply = req[r].reply

C9_Witness ==
    \E r, o \in DOMAIN req :
        /\ req[r].op = "decode_invoice" /\ req[o].op = "decode_invoice"
        /\ req[r].metadata.macaroon = None
        /\ req[o].metadata.macaroon /= None
        /\ req[r].body.text = "invoice-amount-1"
        /\ req[o].body.text = "invoice-amount-1"
        /\ req[r].outcome = "ok" /\ req[o].outcome = "ok"
        /\ active_payments = {}

\* a metadata value that is text: visible ASCII characters and tabs only
IsText(value) == \A i \in 1..Len(value) : value[i] \in (32..126) \cup {9}

BothExist == fs.key.exists /\ fs.cert.exists

\* C11: a call of generate_tls_creds that finds both files returns Ok and
\* writes nothing; from the first call that returned Ok on, both files exist,
\* the key file's mode is 0600, and no later call changes either file.
C11_Idempotent ==
    /\ [](tls.ok_calls >= 1 => BothExist /\ fs.key.mode = KeyMode)
    /\ [][tls.ok_calls >= 1 => fs' = fs]_vars
    /\ [][(tls.pc = "idle" /\ BothExist /\ tls' /= tls) =>
              (fs' = fs /\ tls'.pc = "idle" /\ tls'.result = "Ok")]_vars

C11_Witness ==
    /\ tls.pc = "idle"
    /\ tls.ok_calls = 2
    /\ tls.generated = 1
    /\ fs.key.content = Pem(1, <<>>, "full")
    /\ fs.key.mode = KeyMode

\* C12: the key file holds key material only while its mode is 0600: the
\* mode is 0600 and the file empty when the key is about to be written, the
\* certificate is written only when the key of the same generation is in the
\* key file in full, and a certificate file exists only beside such a key.
C12_KeyModeBeforeKeyMaterial ==
    /\ fs.key.content /= Empty => fs.key.mode = KeyMode
    /\ tls.pc = "write_key" => fs.key.mode = KeyMode /\ fs.key.content = Empty
    /\ tls.pc = "write_cert" =>
          /\ fs.key.content = Pem(tls.gen, <<>>, "full")
          /\ fs.key.mode = KeyMode
          /\ ~fs.cert.exists
    /\ fs.cert.exists =>
          /\ fs.key.exists
          /\ fs.key.content.part = "full"
          /\ fs.cert.content /= Empty => fs.cert.content.gen = fs.key.content.gen

C12_Witness ==
    /\ tls.pc = "write_cert"
    /\ tls.calls >= 1
    /\ fs.key.content = Pem(2, <<>>, "full")
    /\ fs.key.mode = KeyMode
    /\ ~fs.cert.exists

CountOf(str, ch) == Cardinality({i \in 1..Len(str) : str[i] = ch})

RECURSIVE Joined(_, _)
Joined(pieces, sep) ==
    IF Len(pieces) = 1
    THEN pieces[1]
    ELSE pieces[1] \o <<sep>> \o Joined(Tail(pieces), sep)

\* C13 (as claimed): for a None and for an empty tls_ips_string
\* collect_tls_ips returns no list, and for every other string the list of
\* its comma-separated tokens, in order, one more than it has commas.
C13_CollectTlsIps ==
    (tls.pc /= "idle" \/ tls.calls > 0) =>
        IF tls.tls_ips_string = None \/ tls.tls_ips_string = Some(<<>>)
        THEN tls.tls_ips = None
        ELSE /\ tls.tls_ips /= None
             /\ Len(Unwrap(tls.tls_ips)) = CountOf(Unwrap(tls.tls_ips_string), ",") + 1
             /\ Joined(Unwrap(tls.tls_ips), ",") = Unwrap(tls.tls_ips_string)

\* C20 (as claimed): when a call of generate_tls_creds has returned Ok, the
\* key file and the certificate file both exist and hold the complete key and
\* certificate of one generation.
C20_OkMeansCompletePair ==
    (tls.pc = "idle" /\ tls.result = "Ok") =>
        /\ BothExist
        /\ fs.key.content.part = "full"
        /\ fs.cert.content.part = "full"
        /\ fs.cert.content.gen = fs.key.content.gen

\* the calls a handler makes to the node, the resolver and the offer handler
ExternalSteps == {"get_lnd_client", "get_destination", "get_info", "get_network", "handler"}

TimesRun(r, step) == Cardinality({i \in 1..Len(req[r].trace) : req[r].trace[i].step = step})

\* C14 (as claimed): in one request every external step is invoked at most
\* once, and a request that has ended has one outcome, Succeeded with its
\* response or Failed with its status, returned to the caller.
C14_NoRetryOneOutcome ==
    \A r \in DOMAIN req :
        /\ \A step \in ExternalSteps : TimesRun(r, step) <= 1
        /\ Done(r) =>
              \/ /\ req[r].outcome = "ok"
                 /\ req[r].reply /= None
                 /\ req[r].status = NoStatus
              \/ /\ req[r].outcome = "err"
                 /\ req[r].reply = None
                 /\ req[r].status /= NoStatus

\* C15: two requests for the same operation with the same message, each with
\* a `macaroon` entry, whose statements ran with the same results, have
\* written the same log lines and carry the same status, code and message,
\* whatever the values of their credentials.
C15_CredentialNotDisclosed ==
    \A r, o \in DOMAIN req :
        (/\ req[r].op = req[o].op
         /\ req[r].body = req[o].body
         /\ req[r].metadata.macaroon /= None
         /\ req[o].metadata.macaroon /= None
         /\ req[r].trace = req[o].trace
         /\ req[r].handler_err = req[o].handler_err) =>
            /\ req[r].log = req[o].log
            /\ req[r].status = req[o].status
            /\ req[r].outcome = req[o].outcome

C15_Witness ==
    \E r, o \in DOMAIN req :
        /\ req[r].op = "pay_invoice" /\ req[o].op = "pay_invoice"
        /\ req[r].body = req[o].body
        /\ req[r].macaroon = Some(<<65>>)
        /\ req[o].macaroon = Some(<<66>>)
        /\ FailedAt(r, "get_lnd_client") /\ FailedAt(o, "get_lnd_client")
        /\ Returned(r, "Unavailable")
        /\ req[r].status = req[o].status
        /\ req[r].log = req[o].log

\* C16: the introduction node convert_blinded_path produces has exactly one
\* of its two fields set: for a node id, node_id holds the converted key and
\* directed_short_channel_id is absent; for a direction and scid,
\* directed_short_channel_id holds the same direction (NodeOne for NodeOne,
\* NodeTwo for NodeTwo) and the same scid, and node_id is absent.
C16_IntroductionNodeOneVariant ==
    codec.rpc /= None =>
        LET native == codec.native.introduction_node
            rpc == Unwrap(Unwrap(codec.rpc).introduction_node)
        IN /\ Unwrap(codec.rpc).introduction_node /= None
           /\ (rpc.node_id = None) /= (rpc.directed_short_channel_id = None)
           /\ native[1] = "NodeId" =>
                 /\ rpc.node_id = Some([key |-> <<"compressed", native[2]>>])
                 /\ rpc.directed_short_channel_id = None
           /\ native[1] = "DirectedShortChannelId" =>
                 /\ rpc.node_id = None
                 /\ rpc.directed_short_channel_id /= None
                 /\ Unwrap(rpc.directed_short_channel_id).scid = native[3]
                 /\ Unwrap(rpc.directed_short_channel_id).direction =
                        (IF native[2] = "NodeOne" THEN "lndkrpc::Direction::NodeOne"
                                                  ELSE "lndkrpc::Direction::NodeTwo")

C16_Witness ==
    /\ codec.rpc /= None
    /\ codec.native.introduction_node = <<"DirectedShortChannelId", "NodeTwo", 1>>
    /\ Unwrap(codec.rpc).introduction_node =
          Some([node_id |-> None,
                directed_short_channel_id |->
                    Some([direction |-> "lndkrpc::Direction::NodeTwo", scid |-> 1])])

\* C17: whoever holds the Active Payments lock is a get_invoice request at
\* its removal, with no await between taking the lock and dropping it, and
\* can drop it at once; while a request is unfinished some request can take
\* a step, whichever node and offer-handler calls are in flight.
C17_LockNotHeldAcrossAwait ==
    /\ \A r \in DOMAIN req :
          lock = Some(r) =>
              /\ req[r].op = "get_invoice"
              /\ req[r].pc = "remove"
              /\ ENABLED get_invoice_remove(r)
    /\ \A r \in DOMAIN req : req[r].pc /= "remove" => lock /= Some(r)
    /\ (\E r \in DOMAIN req : ~Done(r)) => ENABLED Next

C17_Witness ==
    \E r, o \in DOMAIN req :
        /\ lock = Some(r)
        /\ req[r].pc = "remove"
        /\ req[o].op = "get_invoice"
        /\ req[o].pc = "lock"

\* C18: in get_invoice, once the offer handler has produced an invoice the
\* payment id is removed from Active Payments before the response is
\* assembled: a request at or past the hex encoding has run the removal and
\* its entry is gone, and when the encoding fails the request returns
\* Internal with no entry left.
C18_RemovalBeforeResponse ==
    \A r \in DOMAIN req :
        req[r].op = "get_invoice" =>
            /\ (req[r].pc = "reply" \/ "encode" \in StepsOf(r)) =>
                  /\ "remove" \in StepsOf(r)
                  /\ req[r].payment_id /= None
                  /\ active_payments \cap req[r].minted = {}
            /\ (Done(r) /\ [step |-> "handler", ok |-> TRUE] \in
                               {req[r].trace[i] : i \in 1..Len(req[r].trace)}) =>
                  "remove" \in StepsOf(r)
            /\ FailedAt(r, "encode") =>
                  /\ Returned(r, "Internal")
                  /\ req[r].reply = None
                  /\ active_payments \cap req[r].minted = {}

C18_Witness ==
    \E r \in DOMAIN req :
        /\ req[r].op = "get_invoice"
        /\ FailedAt(r, "encode")
        /\ Returned(r, "Internal")
        /\ req[r].minted /= {}
        /\ active_payments = {}

\* C19: the removal one get_invoice request performs takes its own payment
\* id out of Active Payments and nothing else: the entries and the state of
\* every other request are as they were.
C19_RemoveOnlyOwnEntry ==
    [][\A r \in DOMAIN req :
          (req[r].op = "get_invoice" /\ req[r].pc = "remove" /\ req'[r].pc /= "remove") =>
              /\ active_payments' = active_payments \ req[r].payment_id
              /\ \A o \in DOMAIN req \ {r} :
                    /\ active_payments' \cap req[o].minted = active_payments \cap req[o].minted
                    /\ req'[o] = req[o]]_vars

C19_Witness ==
    \E r, o \in DOMAIN req :
        /\ r /= o
        /\ req[r].op = "get_invoice" /\ req[o].op = "get_invoice"
        /\ req[r].pc = "reply"
        /\ req[o].pc \in {"lock", "remove"}
        /\ req[r].payment_id /= req[o].payment_id
        /\ req[r].payment_id \cap active_payments = {}
        /\ req[o].payment_id \subseteq active_payments
        /\ req[o].payment_id /= None

====
